---- MODULE Spec2Model ----
(***************************************************************************)
(* A model of the ingestion core of idfm-analytics-dataops:                *)
(*   - ODSv2Client.get_records / get_all_records (ingestion/odsv2_client). *)
(*   - extract_validations and the other extractors of ingestion/.       *)
(*   - BigQueryLoader (ingestion/load_bigquery_raw).                       *)
(*   - the daily DAG (orchestration/airflow/dags/transport_daily_pipeline).*)
(* Three state machines share the variables: Spec (one client call or one  *)
(* extraction, page by page), SpecLoad (loader invocations over a bronze   *)
(* file system) and SpecDag (runs of the daily pipeline).                  *)
(***************************************************************************)
EXTENDS Integers, Sequences, FiniteSets, TLC

(***************************************************************************)
(* Bounds of the model.                                                    *)
(***************************************************************************)
\* Largest total_count the source reports.
MaxTotal == 130
\* Cap on the requests of one get_all_records run (never reached by the code).
MaxRequests == 5

(***************************************************************************)
(* Python values.                                                          *)
(***************************************************************************)
\* Optional[int]: None is <<>>, the integer n is <<n>>.
None == <<>>
Some(n) == <<n>>

\* Python truthiness of an Optional[int]: None and 0 are falsy.
Truthy(m) == m # None /\ m[1] # 0

Min(a, b) == IF a <= b THEN a ELSE b

\* recs[:m] for m >= 0.
Prefix(recs, m) == SubSeq(recs, 1, Min(m, Len(recs)))

(***************************************************************************)
(* ODSv2Client                                                             *)
(***************************************************************************)
\* page_size of get_all_records.
PAGE_SIZE == 100
\* The API's maximum limit, enforced by get_records.
API_MAX_LIMIT == 100

\* What the source may answer (it is not trusted): the lengths of a page,
\* short, full and longer than the limit, and the totals it reports.
PageLens == {0, 40, PAGE_SIZE, PAGE_SIZE + 30}
TotalCounts == {-1, 0, 40, PAGE_SIZE, MaxTotal}
\* The max_records a caller passes, and the limits given to get_records.
MaxRecordsArgs == {None, Some(0), Some(30), Some(PAGE_SIZE), Some(PAGE_SIZE + 50), Some(1000)}
LimitArgs == {1, 10, PAGE_SIZE, PAGE_SIZE + 1, 1000}
\* where / select / order_by: the set of those given (truthy).
FilterArgs == SUBSET {"where", "select", "order_by"}

\* The k-th response's records: opaque to the client, named by response and place.
Page(k, n) == [i \in 1..n |-> <<k, i>>]

VARIABLES
    \* --- one client call --------------------------------------------------
    call,          \* the entry point called: "none", "get_records",
                   \* "get_all_records" or "extract_validations"
    pc,            \* "idle", "loop", "waiting", "done", "raised", "exit"
    max_records,   \* get_all_records' argument
    filters,       \* the where/select/order_by given
    all_records, offset, total_count,    \* get_all_records' locals
    requests,      \* the params of every session.get issued
    attempt,       \* the current request: the retries its session.get used,
                   \* and the outcome of its latest attempt
    last_page,     \* None, or the length of the last page received
    result,        \* the list returned
    \* --- bronze file system -----------------------------------------------
    fs,            \* per directory: whether it exists, and its files
    \* --- BigQueryLoader and the warehouse ----------------------------------
    ld,            \* the loader's control state and locals
    loads,         \* the number of loader invocations so far
    jobs,          \* every load job submitted, in submission order
    table,         \* per table: its rows
    \* --- the daily DAG -----------------------------------------------------
    dag,           \* the current run of transport_daily_pipeline
    \* --- concurrency --------------------------------------------------------
    runs,          \* per DAG that calls load_all: its active run
    par,           \* per concurrent extraction: get_all_records' locals
    \* --- the functions studied on their own ---------------------------------
    fn             \* the function applied, its input and its output

fetchVars == <<call, pc, max_records, filters, all_records, offset, total_count,
               requests, attempt, last_page, result>>
loadVars == <<ld, loads, jobs, table>>
concVars == <<runs, par, fn>>
loaderSide == <<loadVars, dag, concVars>>
vars == <<fetchVars, fs, loadVars, dag, concVars>>

Dirs == {"validations", "punctuality", "referentials"}

\* A file name, "<prefix>_<stamp>.json": the prefix's words and the stamp's digits.
FileName(prefix, stamp) == [prefix |-> prefix, stamp |-> stamp]

\* A date's day written on two digits, as ds and strftime write it.
Fmt2(d) == <<d \div 10, d % 10>>

EmptyFs == [d \in Dirs |-> [exists |-> FALSE, files |-> {}]]

\* mkdir(parents, exist_ok) and open(filepath, 'w') + json.dump: the file is
\* created, or its content replaced.
WriteFile(f, dir, name, rows) ==
    [f EXCEPT ![dir] = [exists |-> TRUE,
                        files |-> {x \in f[dir].files : x.name # name}
                                  \cup {[name |-> name, rows |-> rows]}]]

\* A get_records that passes the caller's limit on.
GetRecordsLimit_Unclamped(limit) == limit

\* get_records: params['limit'].
GetRecordsLimit(limit) == Min(limit, API_MAX_LIMIT)

\* get_records: the params of the request.
GetRecordsParams(limit, off, flt) ==
    [limit |-> GetRecordsLimit(limit), offset |-> off, given |-> flt]

\* get_all_records: "if max_records and len(all_records) >= max_records".
MaxReached(mr, recs) == Truthy(mr) /\ Len(recs) >= mr[1]

\* A loop that takes the total of every response.
CaptureTotal_Latest(tc, reported) == Some(reported)

\* get_all_records: "if total_count is None: total_count = response.get(...)".
CaptureTotal(tc, reported) == IF tc = None THEN Some(reported) ELSE tc

\* A loop that does not stop at a page without records.
NoRecords_Never(records) == FALSE

\* get_all_records: "if not records".
NoRecords(records) == records = <<>>

\* A loop that never stops on the total.
FetchedEverything_Never(recs, tc) == FALSE

\* A loop that stops only when the count equals the total.
FetchedEverything_Exact(recs, tc) == Len(recs) = tc[1]

\* get_all_records: "if len(all_records) >= total_count".
FetchedEverything(recs, tc) == Len(recs) >= tc[1]

\* An extractor that writes whatever it got.
NothingExtracted_Never(records) == FALSE

\* extract_validations: "if not records".
NothingExtracted(records) == records = <<>>

\* The get_records that swallows the error and returns an empty response.
GetRecordsReraises_Swallowed == FALSE

\* get_records: both except clauses log and "raise".
GetRecordsReraises == TRUE

\* A pagination that asks for the same offset again.
NextOffset_Stuck(off) == off

\* get_all_records: "offset += page_size".
NextOffset(off) == off + PAGE_SIZE

\* The JSON object of a response: the results array of n records and the
\* total_count, each None when the object lacks the key.
Body(results, reported) == [results |-> results, total_count |-> reported]

\* get_all_records: response.get('results', []), the k-th request's page.
ResultsOf(body, k) == IF body.results = None THEN <<>> ELSE Page(k, body.results[1])

\* get_all_records: response.get('total_count', 0).
TotalOf(body) == IF body.total_count = None THEN 0 ELSE body.total_count[1]

BodyShape(body) ==
    IF body.results = None THEN "no_results"
    ELSE IF body.total_count = None THEN "no_total_count"
    ELSE "page"

\* The JSON objects a response may be that lack a key.
IncompleteBodies ==
    {Body(None, None), Body(None, Some(MaxTotal)),
     Body(Some(40), None), Body(Some(PAGE_SIZE), None)}

\* The outcome of one attempt of session.get: a timeout, a connection error,
\* or a response with its status, whether it carries a Retry-After header,
\* and for a 200 the shape of its body.
Outcome(kind, status, retry_after, body) ==
    [kind |-> kind, status |-> status, retry_after |-> retry_after, body |-> body]

Ok(shape) == Outcome("status", 200, FALSE, shape)

\* get_records: the time.sleep(rate_limit_delay) calls of a call whose
\* session.get ended in outcome. raise_for_status raises on a status of 400
\* and more; the sleep follows it and comes before response.json().
SleepsFor(outcome) ==
    IF outcome.kind = "status" /\ outcome.status < 400 THEN 1 ELSE 0

NoAttempt == [n |-> 0, last |-> Outcome("none", 0, FALSE, "none"), slept |-> 0]

\* The failures an attempt may end in.
ErrorStatuses == {400, 404, 413, 429, 500, 501, 502, 503, 504}
FailedOutcomes ==
    {Outcome("timeout", 0, FALSE, "none"), Outcome("connection_error", 0, FALSE, "none")}
    \cup {Outcome("status", c, FALSE, "none") : c \in ErrorStatuses}
    \cup {Outcome("status", c, TRUE, "none") : c \in {404, 413}}

\* __init__: max_retries, the total of the session's Retry.
MAX_RETRIES == 3

\* _create_session: status_forcelist.
STATUS_FORCELIST == {429, 500, 502, 503, 504}

\* urllib3's Retry.RETRY_AFTER_STATUS_CODES: respect_retry_after_header is
\* left at its default, True.
RETRY_AFTER_STATUS_CODES == {413, 429, 503}

\* The session's Retry, after used retries: is the outcome retried? GET is in
\* method_whitelist, so connection errors and read timeouts are; a status is
\* when in status_forcelist, or (Retry.is_retry) when the response carries
\* Retry-After, its status is one of RETRY_AFTER_STATUS_CODES and the total
\* left is not 0.
IsRetry(outcome, used) ==
    \/ outcome.kind \in {"timeout", "connection_error"}
    \/ /\ outcome.kind = "status"
       /\ \/ outcome.status \in STATUS_FORCELIST
          \/ /\ outcome.retry_after
             /\ outcome.status \in RETRY_AFTER_STATUS_CODES
             /\ MAX_RETRIES - used # 0

\* Retry.increment: total - 1 below 0 after max_retries retries.
IsExhausted(used) == used >= MAX_RETRIES

FetchInit ==
    /\ call = "none"
    /\ pc = "idle"
    /\ max_records = None
    /\ filters = {}
    /\ all_records = <<>>
    /\ offset = 0
    /\ total_count = None
    /\ requests = <<>>
    /\ attempt = NoAttempt
    /\ last_page = None
    /\ result = <<>>

\* A caller calls get_records(limit, offset, where, select, order_by).
CallGetRecords(limit, off, flt) ==
    /\ pc = "idle"
    /\ call' = "get_records"
    /\ filters' = flt
    /\ requests' = Append(requests, GetRecordsParams(limit, off, flt))
    /\ attempt' = NoAttempt
    /\ pc' = "waiting"
    /\ UNCHANGED <<max_records, all_records, offset, total_count, last_page, result,
                   fs, loaderSide>>

\* A caller calls get_all_records(where, select, order_by, max_records).
CallGetAllRecords(mr, flt) ==
    /\ pc = "idle"
    /\ call' = "get_all_records"
    /\ max_records' = mr
    /\ filters' = flt
    /\ all_records' = <<>>
    /\ offset' = 0
    /\ total_count' = None
    /\ pc' = "loop"
    /\ UNCHANGED <<requests, attempt, last_page, result, fs, loaderSide>>

\* extract_validations calls get_all_records(where, select, order_by).
CallExtractValidations ==
    /\ pc = "idle"
    /\ call' = "extract_validations"
    /\ max_records' = None
    /\ filters' = {"where", "select", "order_by"}
    /\ all_records' = <<>>
    /\ offset' = 0
    /\ total_count' = None
    /\ pc' = "loop"
    /\ UNCHANGED <<requests, attempt, last_page, result, fs, loaderSide>>

\* Top of the while loop, the limit reached: truncate, leave the loop, return.
StopAtMax ==
    /\ pc = "loop"
    /\ MaxReached(max_records, all_records)
    /\ all_records' = Prefix(all_records, max_records[1])
    /\ result' = all_records'
    /\ pc' = "done"
    /\ UNCHANGED <<call, max_records, filters, offset, total_count, requests,
                   attempt, last_page, fs, loaderSide>>

\* Top of the while loop, otherwise: get_records(limit=page_size, offset=offset, ...).
IssueRequest ==
    /\ pc = "loop"
    /\ ~MaxReached(max_records, all_records)
    /\ Len(requests) < MaxRequests
    /\ requests' = Append(requests, GetRecordsParams(PAGE_SIZE, offset, filters))
    /\ attempt' = NoAttempt
    /\ pc' = "waiting"
    /\ UNCHANGED <<call, max_records, filters, all_records, offset, total_count,
                   last_page, result, fs, loaderSide>>

\* The loop body of get_all_records after get_records returned body.
LoopBody(body) ==
    LET records == ResultsOf(body, Len(requests))
        total == CaptureTotal(total_count, TotalOf(body))
        extended == all_records \o records
    IN /\ total_count' = total
       /\ last_page' = Some(Len(records))
       /\ IF NoRecords(records)
            THEN /\ pc' = "done"
                 /\ result' = all_records
                 /\ UNCHANGED <<all_records, offset>>
            ELSE /\ all_records' = extended
                 /\ IF FetchedEverything(extended, total)
                      THEN /\ pc' = "done"
                           /\ result' = extended
                           /\ UNCHANGED offset
                      ELSE /\ pc' = "loop"
                           /\ offset' = NextOffset(offset)
                           /\ UNCHANGED result

\* get_records returns a page of n records reporting total_count = tc: the
\* rest of the loop body.
Respond(n, tc) ==
    /\ pc = "waiting"
    /\ call # "get_records"
    /\ LoopBody(Body(Some(n), Some(tc)))
    /\ attempt' = [n |-> 0, last |-> Ok("page"), slept |-> SleepsFor(Ok("page"))]
    /\ UNCHANGED <<call, max_records, filters, requests, fs, loaderSide>>

\* get_records returns a JSON object that lacks the results array, the
\* total_count, or both: the loop body runs on the defaults of .get.
RespondIncomplete(body) ==
    /\ pc = "waiting"
    /\ call # "get_records"
    /\ body.results = None \/ body.total_count = None
    /\ LoopBody(body)
    /\ attempt' = [n |-> 0, last |-> Ok(BodyShape(body)),
                   slept |-> SleepsFor(Ok(BodyShape(body)))]
    /\ UNCHANGED <<call, max_records, filters, requests, fs, loaderSide>>

\* The body is not JSON (response.json() raises), or is JSON but no object
\* (response.get raises in get_all_records): nothing catches it.
RespondUnusable(shape) ==
    /\ pc = "waiting"
    /\ shape \in {"unparseable", "not_object"}
    /\ shape = "not_object" => call # "get_records"
    /\ attempt' = [n |-> 0, last |-> Ok(shape), slept |-> SleepsFor(Ok(shape))]
    /\ pc' = "raised"
    /\ UNCHANGED <<call, max_records, filters, all_records, offset, total_count,
                   requests, last_page, result, fs, loaderSide>>

\* get_records, called directly, returns the response.
RespondDirect(n) ==
    /\ pc = "waiting"
    /\ call = "get_records"
    /\ last_page' = Some(n)
    /\ result' = Page(Len(requests), n)
    /\ attempt' = [n |-> 0, last |-> Ok("page"), slept |-> SleepsFor(Ok("page"))]
    /\ pc' = "done"
    /\ UNCHANGED <<call, max_records, filters, all_records, offset, total_count,
                   requests, fs, loaderSide>>

\* An attempt of session.get ends in outcome and the session's Retry allows
\* another: the adapter sends the request again.
SessionRetries(outcome) ==
    /\ pc = "waiting"
    /\ outcome \in FailedOutcomes
    /\ IsRetry(outcome, attempt.n) /\ ~IsExhausted(attempt.n)
    /\ attempt' = [attempt EXCEPT !.n = @ + 1, !.last = outcome]
    /\ UNCHANGED <<call, pc, max_records, filters, all_records, offset, total_count,
                   requests, last_page, result, fs, loaderSide>>

\* session.get or raise_for_status raises, the attempt's outcome not retried
\* or the retries used up: get_records logs and re-raises, and get_all_records
\* does not catch it.
RequestFails(outcome) ==
    /\ pc = "waiting"
    /\ outcome \in FailedOutcomes
    /\ ~(IsRetry(outcome, attempt.n) /\ ~IsExhausted(attempt.n))
    /\ attempt' = [attempt EXCEPT !.last = outcome, !.slept = SleepsFor(outcome)]
    /\ IF GetRecordsReraises
         THEN /\ pc' = "raised"
              /\ UNCHANGED <<all_records, offset, total_count, last_page, result>>
         ELSE /\ call # "get_records"
              /\ LoopBody(Body(None, None))
    /\ UNCHANGED <<call, max_records, filters, requests, fs, loaderSide>>

\* ODSv2Client(...) raises in _create_session: a urllib3 whose Retry no
\* longer takes method_whitelist (2.0 and later) rejects the argument.
CreateSessionRaises ==
    /\ pc = "idle"
    /\ call' = "init"
    /\ pc' = "raised"
    /\ UNCHANGED <<max_records, filters, all_records, offset, total_count, requests,
                   attempt, last_page, result, fs, loaderSide>>

\* extract_validations, "if not records": warn and return.
ExtractNoRecords ==
    /\ pc = "done"
    /\ call = "extract_validations"
    /\ NothingExtracted(result)
    /\ pc' = "exit"
    /\ UNCHANGED <<call, max_records, filters, all_records, offset, total_count,
                   requests, attempt, last_page, result, fs, loaderSide>>

\* extract_validations, otherwise: one entry per record, mkdir, write the file
\* validations_<start_date>_<end_date>.json.
ExtractWrite(start_date, end_date) ==
    /\ pc = "done"
    /\ call = "extract_validations"
    /\ ~NothingExtracted(result)
    /\ fs' = WriteFile(fs, "validations",
                       FileName(<<"validations">>, Fmt2(start_date) \o Fmt2(end_date)),
                       [i \in 1..Len(result) |-> result[i]])
    /\ pc' = "exit"
    /\ UNCHANGED <<call, max_records, filters, all_records, offset, total_count,
                   requests, attempt, last_page, result, loaderSide>>

(***************************************************************************)
(* BigQueryLoader                                                          *)
(***************************************************************************)
\* Bounds of the loader's model.
\* The artifacts present in the bronze directories when the loader is studied alone.
MaxFiles == 3
\* The loader invocations of one behaviour.
MaxLoads == 2
\* The rows of one artifact.
MaxRows == 2
\* The number of days (and months) artifacts are stamped with, from day 9 on
\* so that the stamps 09 and 10 differ in their first digit.
MaxDays == 3

Days == 9 .. (8 + MaxDays)

\* Python's str comparison, on the digits of two stamps.
LexLess(a, b) ==
    \E k \in 1..(Min(Len(a), Len(b)) + 1) :
        /\ \A j \in 1..(k - 1) : a[j] = b[j]
        /\ \/ k > Len(a) /\ k <= Len(b)
           \/ k <= Len(a) /\ k <= Len(b) /\ a[k] < b[k]

\* The order of two paths of one directory whose names start alike.
NameLess(a, b) == a.prefix = b.prefix /\ LexLess(a.stamp, b.stamp)

\* sorted(...) of a set of paths.
RECURSIVE Sorted(_)
Sorted(S) ==
    IF S = {} THEN <<>>
    ELSE LET least == CHOOSE x \in S : \A y \in S \ {x} : NameLess(x, y)
         IN <<least>> \o Sorted(S \ {least})

\* data_path.glob('<pattern>_*.json'): the names that start with the pattern's words.
Glob(f, dir, pattern) ==
    {x.name : x \in {y \in f[dir].files :
                        /\ Len(y.name.prefix) >= Len(pattern)
                        /\ SubSeq(y.name.prefix, 1, Len(pattern)) = pattern}}

\* The content of a file.
ReadFile(f, dir, name) == (CHOOSE x \in f[dir].files : x.name = name).rows

\* json.dumps(record) and the warehouse's parse of one line.
Dumps(record) == <<"json", record>>
Loads(line) == line[2]

\* _json_array_to_ndjson: one line per record of the array.
JsonArrayToNdjson(records) == [k \in 1..Len(records) |-> Dumps(records[k])]

\* The method of each incremental dataset: its directory, glob pattern and table.
Incremental ==
    [load_validations |-> [dir |-> "validations", pattern |-> <<"validations">>,
                           table |-> "raw_validations"],
     load_punctuality |-> [dir |-> "punctuality", pattern |-> <<"punctuality">>,
                           table |-> "raw_punctuality"]]

\* load_referentials: ref_tables, in the dict's order.
RefTables ==
    << [pattern |-> <<"ref", "stops">>, table |-> "raw_ref_stops"],
       [pattern |-> <<"ref", "lines">>, table |-> "raw_ref_lines"],
       [pattern |-> <<"ref", "stop", "lines">>, table |-> "raw_ref_stop_lines"] >>

Tables == {"raw_validations", "raw_punctuality", "raw_ref_stops", "raw_ref_lines",
           "raw_ref_stop_lines"}

\* A loop that truncates at every file.
IncrementalDisposition_AllTruncate(truncate, i) ==
    IF truncate THEN "WRITE_TRUNCATE" ELSE "WRITE_APPEND"

\* A loop that appends every file.
IncrementalDisposition_AllAppend(truncate, i) == "WRITE_APPEND"

\* load_validations / load_punctuality: the disposition of json_files[i], i from 0.
IncrementalDisposition(truncate, i) ==
    IF truncate /\ i = 0 THEN "WRITE_TRUNCATE" ELSE "WRITE_APPEND"

\* A load_referentials that appends.
ReferentialDisposition_Append == "WRITE_APPEND"

\* load_referentials: the disposition of the latest file.
ReferentialDisposition == "WRITE_TRUNCATE"

\* A load_referentials that takes json_files[0].
LatestIndex_First(json_files) == 1

\* load_referentials: json_files[-1], as an index from 1.
LatestIndex(json_files) == Len(json_files)

\* A warehouse that skips the rows the table already holds.
ApplyJob_Dedup(rows, disposition, lines) ==
    LET loaded == [k \in 1..Len(lines) |-> Loads(lines[k])]
    IN IF disposition = "WRITE_TRUNCATE" THEN loaded
       ELSE rows \o SelectSeq(loaded, LAMBDA r : \A i \in 1..Len(rows) : rows[i] # r)

\* The warehouse's load job: WRITE_TRUNCATE replaces the table's rows by the
\* job's, WRITE_APPEND adds them.
ApplyJob(rows, disposition, lines) ==
    LET loaded == [k \in 1..Len(lines) |-> Loads(lines[k])]
    IN IF disposition = "WRITE_TRUNCATE" THEN loaded ELSE rows \o loaded

\* A load_json_to_table that does not wait for the job.
ResultReady_NoWait(job) == TRUE

\* load_job.result(): blocks until the job is no longer running.
ResultReady(job) == job.state # "running"

\* A load_json_to_table that takes a failed job for a finished one.
JobFailed_Ignored(job) == FALSE

\* load_job.result() raises when the job ended in error.
JobFailed(job) == job.state = "failed"

\* load_all: the method after m, "return" after the last; main's other entries
\* call one method.
AfterMethod(entry, m) ==
    IF entry # "load_all" THEN "return"
    ELSE IF m = "load_validations" THEN "load_punctuality"
    ELSE IF m = "load_punctuality" THEN "load_referentials"
    ELSE "return"

FirstMethod(entry) == IF entry = "load_all" THEN "load_validations" ELSE entry

Entries == {"load_all", "load_validations", "load_punctuality", "load_referentials"}

IdleLoader ==
    [lpc |-> "idle", entry |-> "none", truncate |-> FALSE, inv |-> 0, method |-> "none",
     json_files |-> <<>>, idx |-> 0, ref_idx |-> 0, outcome |-> "none"]

\* The loader leaves method m: the next method of load_all, or the return.
Leave(l, m) ==
    LET next == AfterMethod(l.entry, m)
    IN IF next = "return"
         THEN [l EXCEPT !.lpc = "idle", !.outcome = "returned"]
         ELSE [l EXCEPT !.lpc = next]

\* A loader for which a missing directory is an error.
WarnAndReturn_Raises(l, m) == [l EXCEPT !.lpc = "idle", !.outcome = "raised"]

\* The directory missing, or no file matching: logger.warning and return.
WarnAndReturn(l, m) == Leave(l, m)

\* loader.<entry>(truncate=truncate) is called.
CallLoader(entry, truncate) ==
    /\ ld.lpc = "idle"
    /\ loads < MaxLoads
    /\ loads' = loads + 1
    /\ ld' = [IdleLoader EXCEPT !.lpc = FirstMethod(entry), !.entry = entry,
                                !.truncate = truncate, !.inv = loads + 1,
                                !.outcome = "running"]
    /\ UNCHANGED <<jobs, table, fetchVars, concVars, fs>>

\* main: the entry the command line names, with --truncate or without;
\* load_referentials takes no truncate.
Main(entry, truncate) ==
    /\ entry = "load_referentials" => ~truncate
    /\ CallLoader(entry, truncate)
    /\ UNCHANGED dag

\* load_validations / load_punctuality up to the for loop: the directory
\* missing or without a matching file is a warning and a return.
ListArtifacts ==
    /\ ld.lpc \in DOMAIN Incremental
    /\ LET m == Incremental[ld.lpc]
           json_files == Sorted(Glob(fs, m.dir, m.pattern))
       IN ld' = IF ~fs[m.dir].exists \/ json_files = <<>>
                  THEN WarnAndReturn(ld, ld.lpc)
                  ELSE [ld EXCEPT !.lpc = "submit", !.method = ld.lpc,
                                  !.json_files = json_files, !.idx = 1]
    /\ UNCHANGED <<loads, jobs, table, fetchVars, concVars, fs, dag>>

\* load_referentials up to the for loop.
EnterReferentials ==
    /\ ld.lpc = "load_referentials"
    /\ ld' = IF ~fs["referentials"].exists
               THEN WarnAndReturn(ld, "load_referentials")
               ELSE [ld EXCEPT !.lpc = "ref_loop", !.method = "load_referentials",
                               !.ref_idx = 1]
    /\ UNCHANGED <<loads, jobs, table, fetchVars, concVars, fs, dag>>

\* load_referentials, one turn of the for loop up to load_json_to_table.
RefLoop ==
    /\ ld.lpc = "ref_loop"
    /\ ld' = IF ld.ref_idx > Len(RefTables)
               THEN Leave(ld, "load_referentials")
               ELSE LET json_files ==
                            Sorted(Glob(fs, "referentials", RefTables[ld.ref_idx].pattern))
                    IN IF json_files = <<>>
                         THEN [ld EXCEPT !.ref_idx = ld.ref_idx + 1]
                         ELSE [ld EXCEPT !.lpc = "submit", !.json_files = json_files,
                                         !.idx = LatestIndex(json_files)]
    /\ UNCHANGED <<loads, jobs, table, fetchVars, concVars, fs, dag>>

\* load_json_to_table up to load_table_from_file: the file is read and
\* converted, and the job submitted.
SubmitJob ==
    /\ ld.lpc = "submit"
    /\ LET referential == ld.method = "load_referentials"
           dir == IF referential THEN "referentials" ELSE Incremental[ld.method].dir
           file == ld.json_files[ld.idx]
           job == [inv |-> ld.inv, method |-> ld.method, truncate |-> ld.truncate,
                   i |-> ld.idx, list |-> ld.json_files, file |-> file,
                   table |-> IF referential THEN RefTables[ld.ref_idx].table
                             ELSE Incremental[ld.method].table,
                   disposition |-> IF referential THEN ReferentialDisposition
                                   ELSE IncrementalDisposition(ld.truncate, ld.idx - 1),
                   lines |-> JsonArrayToNdjson(ReadFile(fs, dir, file)),
                   state |-> "running", after |-> <<>>]
       IN jobs' = Append(jobs, job)
    /\ ld' = [ld EXCEPT !.lpc = "wait"]
    /\ UNCHANGED <<loads, table, fetchVars, concVars, fs, dag>>

\* The warehouse completes a running job; the job keeps the table's rows
\* as it left them (table.num_rows, read by load_json_to_table).
JobCompletes(k) ==
    /\ k \in 1..Len(jobs)
    /\ jobs[k].state = "running"
    /\ table' = [table EXCEPT ![jobs[k].table] =
                     ApplyJob(table[jobs[k].table], jobs[k].disposition, jobs[k].lines)]
    /\ jobs' = [jobs EXCEPT ![k].state = "done", ![k].after = table'[jobs[k].table]]
    /\ UNCHANGED <<ld, loads, fetchVars, concVars, fs, dag>>

\* The warehouse rejects a running job: the table is left as it was.
JobRejected(k) ==
    /\ k \in 1..Len(jobs)
    /\ jobs[k].state = "running"
    /\ jobs' = [jobs EXCEPT ![k].state = "failed"]
    /\ UNCHANGED <<ld, loads, table, fetchVars, concVars, fs, dag>>

\* load_job.result() returns: the rest of load_json_to_table, and the caller's loop.
ResultReturns ==
    /\ ld.lpc = "wait"
    /\ ResultReady(jobs[Len(jobs)])
    /\ ~JobFailed(jobs[Len(jobs)])
    /\ ld' = IF ld.method = "load_referentials"
               THEN [ld EXCEPT !.lpc = "ref_loop", !.ref_idx = ld.ref_idx + 1]
               ELSE IF ld.idx < Len(ld.json_files)
                      THEN [ld EXCEPT !.lpc = "submit", !.idx = ld.idx + 1]
                      ELSE Leave(ld, ld.method)
    /\ UNCHANGED <<loads, jobs, table, fetchVars, concVars, fs, dag>>

\* load_job.result() raises: nothing catches it, the invocation ends.
ResultRaises ==
    /\ ld.lpc = "wait"
    /\ ResultReady(jobs[Len(jobs)])
    /\ JobFailed(jobs[Len(jobs)])
    /\ ld' = [ld EXCEPT !.lpc = "idle", !.outcome = "raised"]
    /\ UNCHANGED <<loads, jobs, table, fetchVars, concVars, fs, dag>>

(***************************************************************************)
(* Artifacts, and the daily DAG                                            *)
(***************************************************************************)
\* The entries of an artifact: n records of the ver-th extraction of the file.
ArtifactRows(name, ver, n) == [i \in 1..n |-> [file |-> name, ver |-> ver, i |-> i]]

ValidationsName(start_date, end_date) ==
    FileName(<<"validations">>, Fmt2(start_date) \o Fmt2(end_date))
PunctualityName(start_month, end_month) ==
    FileName(<<"punctuality">>, Fmt2(start_month) \o Fmt2(end_month))
ReferentialName(r, today) == FileName(RefTables[r].pattern, Fmt2(today))

\* The month of a day of the model: its days are days of one month.
MonthOf(day) == 1 + (day \div 32)

\* The datasets: the directory and glob pattern of each.
Datasets ==
    << [dir |-> "validations", pattern |-> <<"validations">>],
       [dir |-> "punctuality", pattern |-> <<"punctuality">>],
       [dir |-> "referentials", pattern |-> RefTables[1].pattern],
       [dir |-> "referentials", pattern |-> RefTables[2].pattern],
       [dir |-> "referentials", pattern |-> RefTables[3].pattern] >>

\* The name an extractor gives the artifact of dataset p stamped with day
\* (or month) d: validations_<d>_<d>, punctuality_<d>_<d>, ref_..._<d>.
ArtifactName(p, d) ==
    IF p = 1 THEN ValidationsName(d, d)
    ELSE IF p = 2 THEN PunctualityName(d, d)
    ELSE ReferentialName(p - 2, d)

\* The artifacts the extractors left: count[p] of dataset p, of the first days.
Artifacts(count) ==
    {[dir |-> Datasets[p].dir, name |-> ArtifactName(p, d), day |-> d] :
        <<p, d>> \in {x \in (1..Len(Datasets)) \X Days : x[2] <= 8 + count[x[1]]}}

RECURSIVE Sum(_, _)
Sum(f, n) == IF n = 0 THEN 0 ELSE f[n] + Sum(f, n - 1)

\* The bronze directories holding the artifacts S; a directory without
\* artifact exists when the directories were created beforehand.
FsOf(S, mounted) ==
    [d \in Dirs |->
        [exists |-> mounted \/ \E c \in S : c.dir = d,
         files |-> {[name |-> c.name,
                     rows |-> ArtifactRows(c.name, 0, 1 + (c.day % MaxRows))] :
                        c \in {x \in S : x.dir = d}}]]

\* Rows a table may hold before the first load.
PriorRows == ArtifactRows(FileName(<<"prior">>, <<>>), 0, 1)

TaskIds == {"extract_validations", "extract_punctuality", "extract_referentials"}

\* The tasks downstream of load_bigquery_raw, in the order of the DAG.
DownTasks == {"dbt_build", "check_sla", "notify_success"}

\* phase follows the extraction tasks and the load task ("success" once
\* load_bigquery_raw succeeded), down the tasks after it, sla the outcome of
\* the query of check_sla and the exit code it returned.
NoRun ==
    [run |-> 0, ds |-> 0, phase |-> "none", task |-> [t \in TaskIds |-> "none"],
     down |-> [t \in DownTasks |-> "none"], sla |-> [outcome |-> "none", exit_code |-> None]]

\* The run is over: a task failed, or the last task is done.
RunOver ==
    \/ dag.phase \in {"none", "failed"}
    \/ /\ dag.phase = "success"
       /\ \/ \E t \in DownTasks : dag.down[t] = "failed"
          \/ dag.down["notify_success"] = "success"

\* The scheduler starts the next daily run: max_active_runs = 1.
DagRunStarts ==
    /\ RunOver
    /\ dag.run < MaxLoads
    /\ dag' = [run |-> dag.run + 1, ds |-> 8 + dag.run + 1, phase |-> "extract",
               task |-> [t \in TaskIds |-> "pending"],
               down |-> [t \in DownTasks |-> "pending"],
               sla |-> [outcome |-> "none", exit_code |-> None]]
    /\ UNCHANGED <<fetchVars, concVars, fs, loadVars>>

\* Task extract_validations: extract_validations(ds, ds, ...) finds n records.
TaskExtractValidations(n) ==
    /\ dag.phase = "extract"
    /\ dag.task["extract_validations"] = "pending"
    /\ LET name == ValidationsName(dag.ds, dag.ds)
       IN fs' = IF n = 0 THEN fs
                ELSE WriteFile(fs, "validations", name, ArtifactRows(name, dag.run, n))
    /\ dag' = [dag EXCEPT !.task["extract_validations"] = "success"]
    /\ UNCHANGED <<fetchVars, concVars, loadVars>>

\* Task extract_punctuality: extract_punctuality(month_start, ds, ...) finds n
\* records; the file is named by the two months. The callable imports the
\* function from a module extract_punctuality of /opt/airflow/ingestion, while
\* the repository's file is ingestion/extract_ponctuality.py: where the mount
\* holds no module of the imported name the task ends in TaskRaises.
TaskExtractPunctuality(n) ==
    /\ dag.phase = "extract"
    /\ dag.task["extract_punctuality"] = "pending"
    /\ LET name == PunctualityName(MonthOf(dag.ds), MonthOf(dag.ds))
       IN fs' = IF n = 0 THEN fs
                ELSE WriteFile(fs, "punctuality", name, ArtifactRows(name, dag.run, n))
    /\ dag' = [dag EXCEPT !.task["extract_punctuality"] = "success"]
    /\ UNCHANGED <<fetchVars, concVars, loadVars>>

\* The file system after the extractors r..done of extract_referentials ran,
\* those of found with records.
RECURSIVE WriteReferentials(_, _, _, _, _, _)
WriteReferentials(f, r, done, found, today, ver) ==
    IF r > done THEN f
    ELSE LET name == ReferentialName(r, today)
             g == IF r \in found
                    THEN WriteFile(f, "referentials", name, ArtifactRows(name, ver, MaxRows))
                    ELSE f
         IN WriteReferentials(g, r + 1, done, found, today, ver)

\* Task extract_referentials: extract_ref_stops, extract_ref_lines and
\* extract_ref_stop_lines in turn, the first `done` of them returning (the
\* next one raises), those of `found` finding records. The files are named
\* by the day the task runs, the day after ds.
TaskExtractReferentials(done, found) ==
    /\ dag.phase = "extract"
    /\ dag.task["extract_referentials"] = "pending"
    /\ fs' = WriteReferentials(fs, 1, done, found, dag.ds + 1, dag.run)
    /\ dag' = IF done = Len(RefTables)
                THEN [dag EXCEPT !.task["extract_referentials"] = "success"]
                ELSE [dag EXCEPT !.task["extract_referentials"] = "failed",
                                 !.phase = "failed"]
    /\ UNCHANGED <<fetchVars, concVars, loadVars>>

\* An extraction task of one dataset raises before it writes.
TaskRaises(t) ==
    /\ dag.phase = "extract"
    /\ t \in {"extract_validations", "extract_punctuality"}
    /\ dag.task[t] = "pending"
    /\ dag' = [dag EXCEPT !.task[t] = "failed", !.phase = "failed"]
    /\ UNCHANGED <<fetchVars, concVars, fs, loadVars>>

\* Task load_bigquery_raw, once the three extractions succeeded: loader.load_all().
DagLoadStarts ==
    /\ dag.phase = "extract"
    /\ \A t \in TaskIds : dag.task[t] = "success"
    /\ CallLoader("load_all", FALSE)
    /\ dag' = [dag EXCEPT !.phase = "load"]

\* Task load_bigquery_raw ends as load_all ended.
DagLoadEnds ==
    /\ dag.phase = "load"
    /\ ld.lpc = "idle"
    /\ dag' = [dag EXCEPT !.phase = IF ld.outcome = "returned" THEN "success" ELSE "failed"]
    /\ UNCHANGED <<fetchVars, concVars, fs, loadVars>>

\* Task dbt_build, once load_bigquery_raw succeeded: the command exits with
\* 0 or not.
TaskDbtBuild(ok) ==
    /\ dag.phase = "success"
    /\ dag.down["dbt_build"] = "pending"
    /\ dag' = [dag EXCEPT !.down["dbt_build"] = IF ok THEN "success" ELSE "failed"]
    /\ UNCHANGED <<fetchVars, concVars, fs, loadVars>>

\* What the query of scripts/check_sla.py may do: return no row, return
\* breach rows, raise; and bigquery.Client(...) may raise before it.
SlaOutcomes == {"no_breach", "breach", "query_error", "client_error"}

\* A check that takes a failed query for a pass.
CheckSlaExit_Lenient(outcome) == IF outcome = "breach" THEN 1 ELSE 0

\* scripts/check_sla.py, inside its try: 0 when the query returned no row, 1
\* when it returned rows or when anything raised.
CheckSlaExit(outcome) == IF outcome = "no_breach" THEN 0 ELSE 1

\* Task check_sla, once dbt_build succeeded: the callable raises when the
\* exit code is not 0 (and when the client cannot be built, out of the try).
TaskCheckSla(outcome) ==
    /\ dag.down["dbt_build"] = "success"
    /\ dag.down["check_sla"] = "pending"
    /\ LET exit_code == IF outcome = "client_error" THEN None
                        ELSE Some(CheckSlaExit(outcome))
       IN dag' = [dag EXCEPT !.sla = [outcome |-> outcome, exit_code |-> exit_code],
                             !.down["check_sla"] =
                                 IF exit_code = Some(0) THEN "success" ELSE "failed"]
    /\ UNCHANGED <<fetchVars, concVars, fs, loadVars>>

\* Task notify_success, once check_sla succeeded: the webhook is called.
TaskNotifySuccess(ok) ==
    /\ dag.down["check_sla"] = "success"
    /\ dag.down["notify_success"] = "pending"
    /\ dag' = [dag EXCEPT !.down["notify_success"] = IF ok THEN "success" ELSE "failed"]
    /\ UNCHANGED <<fetchVars, concVars, fs, loadVars>>

(***************************************************************************)
(* The DAGs that call load_all                                             *)
(***************************************************************************)
\* The DAGs whose load task calls BigQueryLoader().load_all(): the daily one
\* is scheduled, the backfill is triggered by hand.
LoadingDags == {"transport_daily_pipeline", "transport_backfill"}

\* max_active_runs, which each of them sets: a limit on the active runs of
\* that DAG.
MAX_ACTIVE_RUNS == 1

\* The tables load_all writes, in the order it loads them.
LoadOrder ==
    <<"raw_validations", "raw_punctuality", "raw_ref_stops", "raw_ref_lines",
      "raw_ref_stop_lines">>

NoActiveRun == [phase |-> "none", at |-> 0, writing |-> FALSE]

ActiveRuns(d) == IF runs[d].phase = "none" THEN 0 ELSE 1

\* The tables the load task of DAG d has a load job running on.
WritingTo(d) ==
    IF runs[d].phase = "load" /\ runs[d].writing THEN {LoadOrder[runs[d].at]} ELSE {}

\* The scheduler (or a manual trigger) starts a run of d: the extraction
\* tasks run first.
RunStarts(d) ==
    /\ ActiveRuns(d) < MAX_ACTIVE_RUNS
    /\ runs' = [runs EXCEPT ![d] = [NoActiveRun EXCEPT !.phase = "extract"]]
    /\ UNCHANGED <<fetchVars, fs, loadVars, dag, par, fn>>

\* The load task of d starts: loader = BigQueryLoader(); loader.load_all().
LoadTaskStarts(d) ==
    /\ runs[d].phase = "extract"
    /\ runs' = [runs EXCEPT ![d] = [phase |-> "load", at |-> 1, writing |-> FALSE]]
    /\ UNCHANGED <<fetchVars, fs, loadVars, dag, par, fn>>

\* load_all reaches a table and submits a load job on it.
LoadSubmits(d) ==
    /\ runs[d].phase = "load"
    /\ ~runs[d].writing
    /\ runs[d].at <= Len(LoadOrder)
    /\ runs' = [runs EXCEPT ![d].writing = TRUE]
    /\ UNCHANGED <<fetchVars, fs, loadVars, dag, par, fn>>

\* load_all finds no artifact for a table and goes on to the next.
LoadSkips(d) ==
    /\ runs[d].phase = "load"
    /\ ~runs[d].writing
    /\ runs[d].at <= Len(LoadOrder)
    /\ runs' = [runs EXCEPT ![d].at = @ + 1]
    /\ UNCHANGED <<fetchVars, fs, loadVars, dag, par, fn>>

\* load_job.result() returns: the job on the table is over.
LoadJobEnds(d) ==
    /\ runs[d].phase = "load"
    /\ runs[d].writing
    /\ runs' = [runs EXCEPT ![d].writing = FALSE, ![d].at = @ + 1]
    /\ UNCHANGED <<fetchVars, fs, loadVars, dag, par, fn>>

\* load_all returns: the tasks downstream of the load run.
LoadTaskEnds(d) ==
    /\ runs[d].phase = "load"
    /\ runs[d].at > Len(LoadOrder)
    /\ runs' = [runs EXCEPT ![d] = [NoActiveRun EXCEPT !.phase = "after"]]
    /\ UNCHANGED <<fetchVars, fs, loadVars, dag, par, fn>>

\* The run of d is over.
RunEnds(d) ==
    /\ runs[d].phase = "after"
    /\ runs' = [runs EXCEPT ![d] = NoActiveRun]
    /\ UNCHANGED <<fetchVars, fs, loadVars, dag, par, fn>>

(***************************************************************************)
(* Concurrent extractions                                                  *)
(***************************************************************************)
\* The extractions running at once: the daily DAG runs its extraction tasks
\* in parallel, each with a client of its own on a dataset of its own.
MaxRuns == 2
RunIds == 1 .. MaxRuns

\* The sizes of the datasets, and the max_records of the runs.
DatasetSizes == {0, 40, PAGE_SIZE, MaxTotal, 2 * PAGE_SIZE}
ParMaxRecords == {None, Some(30), Some(PAGE_SIZE)}

\* What the source answers to get_records(limit, offset) on the dataset of
\* run r, of `size` records: the records offset+1 .. offset+limit it has.
SourcePage(r, size, off, limit) ==
    LET n == IF size > off THEN Min(limit, size - off) ELSE 0
    IN [i \in 1..n |-> <<r, off + i>>]

\* An offset kept in one place for all the runs.
OffsetOf_Shared(r) == par[1].offset

\* get_all_records: offset is a local of the call.
OffsetOf(r) == par[r].offset

\* get_all_records begins: all_records = [], offset = 0, total_count = None.
StartedRun(size, mr) ==
    [pc |-> "loop", size |-> size, max_records |-> mr, all_records |-> <<>>,
     offset |-> 0, total_count |-> None, req |-> None, nreq |-> 0, result |-> <<>>]

\* The list get_all_records returns when the run is the only one: its loop,
\* from the top, with the locals recs, off and tc.
RECURSIVE AloneFrom(_, _, _, _, _, _)
AloneFrom(r, size, mr, recs, off, tc) ==
    IF MaxReached(mr, recs) THEN Prefix(recs, mr[1])
    ELSE LET records == SourcePage(r, size, off, PAGE_SIZE)
             total == CaptureTotal(tc, size)
             extended == recs \o records
         IN IF NoRecords(records) THEN recs
            ELSE IF FetchedEverything(extended, total) THEN extended
            ELSE AloneFrom(r, size, mr, extended, NextOffset(off), total)

\* Run r, top of the while loop, the limit reached: truncate and return.
ParStopAtMax(r) ==
    /\ par[r].pc = "loop"
    /\ MaxReached(par[r].max_records, par[r].all_records)
    /\ LET cut == Prefix(par[r].all_records, par[r].max_records[1])
       IN par' = [par EXCEPT ![r].all_records = cut, ![r].result = cut, ![r].pc = "done"]
    /\ UNCHANGED <<fetchVars, fs, loadVars, dag, runs, fn>>

\* Run r, top of the while loop, otherwise: get_records(page_size, offset).
ParIssueRequest(r) ==
    /\ par[r].pc = "loop"
    /\ ~MaxReached(par[r].max_records, par[r].all_records)
    /\ par' = [par EXCEPT ![r].req = Some(OffsetOf(r)), ![r].nreq = @ + 1,
                          ![r].pc = "waiting"]
    /\ UNCHANGED <<fetchVars, fs, loadVars, dag, runs, fn>>

\* Run r receives the page it asked for: the rest of its loop body.
ParRespond(r) ==
    /\ par[r].pc = "waiting"
    /\ LET records == SourcePage(r, par[r].size, par[r].req[1], PAGE_SIZE)
           total == CaptureTotal(par[r].total_count, par[r].size)
           extended == par[r].all_records \o records
       IN par' = [par EXCEPT ![r] =
              IF NoRecords(records)
                THEN [@ EXCEPT !.total_count = total, !.req = None, !.pc = "done",
                               !.result = par[r].all_records]
              ELSE IF FetchedEverything(extended, total)
                THEN [@ EXCEPT !.total_count = total, !.req = None, !.pc = "done",
                               !.all_records = extended, !.result = extended]
              ELSE [@ EXCEPT !.total_count = total, !.req = None, !.pc = "loop",
                             !.all_records = extended,
                             !.offset = NextOffset(OffsetOf(r))]]
    /\ UNCHANGED <<fetchVars, fs, loadVars, dag, runs, fn>>

(***************************************************************************)
(* Field mapping                                                           *)
(***************************************************************************)
\* Python's None as a value of a record.
Null == "null"

\* The raw records: flat dicts over a few source keys, a value being a
\* scalar or None (no value of the model's records is itself a dict).
SourceKeys == {"jour", "nb_vald"}
Scalars == {"2024-01-01", Null}
RawRecords == UNION {[ks -> Scalars] : ks \in SUBSET SourceKeys}

\* The field maps {target: source}: a source name is given by its parts
\* between dots, <<"jour", "x">> being the name "jour.x".
TargetNames == {"date", "validation_count", "source"}
SourceNames == {<<"jour">>, <<"nb_vald">>, <<"libelle_arret">>, <<"jour", "x">>}
FieldMaps == UNION {[ts -> SourceNames] : ts \in SUBSET TargetNames}

\* What extract_fields may find around the fields of a record:
\* record['record']['fields'], either key missing or holding None.
RecordShapes == {"nested", "no_record", "record_null", "no_fields", "fields_null"}

\* The fields every extractor adds to a mapped record.
InjectedFields == {"ingestion_ts", "source"}

\* dict.get(key).
Get(d, key) == IF key \in DOMAIN d THEN d[key] ELSE Null

\* record.get(source) on a flat record, whose keys hold no dot.
Lookup(record, name) == IF Len(name) = 1 THEN Get(record, name[1]) ELSE Null

\* _get_nested_field(data, field_path): the path is followed while the
\* value is a dict and not None; isdict tells whether data is a dict.
GetNestedField(data, isdict, path) ==
    IF ~isdict THEN Null
    ELSE LET value == Get(data, path[1])
         IN IF value = Null THEN Null
            ELSE IF Len(path) = 1 THEN value
            ELSE Null

\* extract_fields on one record of the given shape around `record`.
ExtractFields(shape, record, field_mapping) ==
    IF shape = "record_null"
      THEN [raised |-> TRUE]
      ELSE LET isdict == shape # "fields_null"
               fields == IF shape = "nested" THEN record ELSE <<>>
           IN [raised |-> FALSE,
               value |-> [t \in DOMAIN field_mapping |->
                             GetNestedField(fields, isdict, field_mapping[t])]]

\* datetime.isoformat(): the date and time, then the UTC offset of an aware
\* datetime.
IsoFormat(aware) ==
    IF aware THEN <<"2024-01-01T02:00:00.000000", "+00:00">>
    ELSE <<"2024-01-01T02:00:00.000000">>

\* A timestamp taken from a naive datetime.
IngestionTs_Naive == IsoFormat(FALSE)

\* datetime.now(timezone.utc).isoformat().
IngestionTs == IsoFormat(TRUE)

\* The extractors' loop body: {target: record.get(source) ...}, then the
\* two injected fields are assigned.
MapRecord(record, fields, tag) ==
    LET extracted_record == [t \in DOMAIN fields |-> Lookup(record, fields[t])]
    IN [t \in DOMAIN fields \cup InjectedFields |->
           IF t = "source" THEN tag
           ELSE IF t = "ingestion_ts" THEN IngestionTs
           ELSE extracted_record[t]]

\* The extractors, and the 'source' each gives its entries.
ProvenanceTags ==
    [validations |-> "idfm_validations_rail",
     punctuality |-> "transilien_punctuality",
     ref_stops |-> "idfm_ref_stops",
     ref_lines |-> "idfm_ref_lines",
     ref_stop_lines |-> "idfm_ref_stop_lines"]

\* The records get_all_records returned to an extractor, at most MaxRecords,
\* and the field maps of its configuration.
MaxRecords == 2
RecordLists == UNION {[1..n -> RawRecords] : n \in 0..MaxRecords}
ExtractMaps == {f \in FieldMaps : Cardinality(DOMAIN f) = 2}

\* An extractor after get_all_records: nothing is written without records;
\* otherwise one entry per record, in order, dumped to the artifact.
ExtractArtifact(dataset, records, fields) ==
    IF NothingExtracted(records)
      THEN [written |-> FALSE, entries |-> <<>>]
      ELSE [written |-> TRUE,
            entries |-> [i \in 1..Len(records) |->
                            MapRecord(records[i], fields, ProvenanceTags[dataset])]]

\* An extractor runs on the records it fetched.
ApplyExtract ==
    /\ fn.op = "none" /\ fn.in # <<>>
    /\ fn' = [fn EXCEPT !.op = "extract",
                        !.out = ExtractArtifact(fn.in.dataset, fn.in.records, fn.in.fields)]
    /\ UNCHANGED <<fetchVars, fs, loadVars, dag, runs, par>>

\* extract_validations maps a record of get_all_records.
ApplyMapRecord ==
    /\ fn.op = "none" /\ fn.in # <<>>
    /\ fn' = [fn EXCEPT !.op = "map_record",
                        !.out = [raised |-> FALSE,
                                 value |-> MapRecord(fn.in.record, fn.in.fields,
                                                     "idfm_validations_rail")]]
    /\ UNCHANGED <<fetchVars, fs, loadVars, dag, runs, par>>

\* A caller of the client maps a record with extract_fields.
ApplyExtractFields ==
    /\ fn.op = "none" /\ fn.in # <<>>
    /\ fn' = [fn EXCEPT !.op = "extract_fields",
                        !.out = ExtractFields(fn.in.shape, fn.in.record, fn.in.fields)]
    /\ UNCHANGED <<fetchVars, fs, loadVars, dag, runs, par>>

(***************************************************************************)
(* _json_array_to_ndjson                                                   *)
(***************************************************************************)
\* Text is a sequence of characters. The characters that matter to JSON and
\* to lines: the line feed, the double quote, the backslash; a letter that is
\* also an escape letter, and a letter outside ASCII.
LF == "LF"
QUOTE == "QUOTE"
BACKSLASH == "BACKSLASH"
Chars == {LF, QUOTE, BACKSLASH, "n", "e_acute"}

\* The records of an artifact: objects of one key, whose value is a string of
\* at most MaxStr characters; an artifact holds at most MaxLines of them.
MaxStr == 2
MaxLines == 2
Strings == UNION {[1..n -> Chars] : n \in 0..MaxStr}
JsonArrays == UNION {[1..k -> Strings] : k \in 0..MaxLines}

RECURSIVE Flatten(_)
Flatten(seqs) == IF seqs = <<>> THEN <<>> ELSE Head(seqs) \o Flatten(Tail(seqs))

\* A writer that leaves every character as it is.
EscapeChar_Raw(c) == <<c>>

\* json.dumps(..., ensure_ascii=False), one character of a string: the line
\* feed, the quote and the backslash are escaped, the rest is kept.
EscapeChar(c) ==
    IF c = LF THEN <<BACKSLASH, "n">>
    ELSE IF c = QUOTE THEN <<BACKSLASH, QUOTE>>
    ELSE IF c = BACKSLASH THEN <<BACKSLASH, BACKSLASH>>
    ELSE <<c>>

\* json.dumps(record, ensure_ascii=False) of the object {"k": str}.
ObjOpen == <<"{", QUOTE, "k", QUOTE, ":", QUOTE>>
ObjClose == <<QUOTE, "}">>
JsonDumps(str) == ObjOpen \o Flatten([i \in 1..Len(str) |-> EscapeChar(str[i])]) \o ObjClose

\* '\n'.join(lines).
RECURSIVE Join(_)
Join(lines) ==
    IF lines = <<>> THEN <<>>
    ELSE IF Len(lines) = 1 THEN lines[1]
    ELSE lines[1] \o <<LF>> \o Join(Tail(lines))

\* str.encode('utf-8') and bytes.decode('utf-8'): a byte per ASCII character,
\* two for the letter outside ASCII.
Utf8Encode(text) ==
    Flatten([i \in 1..Len(text) |->
                IF text[i] = "e_acute" THEN <<"0xC3", "0xA9">> ELSE <<text[i]>>])

RECURSIVE Utf8Decode(_)
Utf8Decode(bytes) ==
    IF bytes = <<>> THEN <<>>
    ELSE IF Len(bytes) >= 2 /\ bytes[1] = "0xC3" /\ bytes[2] = "0xA9"
      THEN <<"e_acute">> \o Utf8Decode(SubSeq(bytes, 3, Len(bytes)))
    ELSE <<bytes[1]>> \o Utf8Decode(Tail(bytes))

\* _json_array_to_ndjson on the array json.load read, character by
\* character: the bytes of the buffer.
NdjsonBuffer(records) ==
    Utf8Encode(Join([i \in 1..Len(records) |-> JsonDumps(records[i])]))

\* The lines of a buffer, as a reader of line-delimited JSON takes them: split
\* at each line feed, none for an empty buffer.
RECURSIVE SplitLines(_, _)
SplitLines(bytes, line) ==
    IF bytes = <<>> THEN <<line>>
    ELSE IF bytes[1] = LF THEN <<line>> \o SplitLines(Tail(bytes), <<>>)
    ELSE SplitLines(Tail(bytes), Append(line, bytes[1]))

LinesOf(bytes) == IF bytes = <<>> THEN <<>> ELSE SplitLines(bytes, <<>>)

\* json.loads of the inside of a string: each escape gives its character.
RECURSIVE Unescape(_)
Unescape(text) ==
    IF text = <<>> THEN <<>>
    ELSE IF text[1] = BACKSLASH /\ Len(text) >= 2
      THEN <<IF text[2] = "n" THEN LF ELSE text[2]>>
           \o Unescape(SubSeq(text, 3, Len(text)))
    ELSE <<text[1]>> \o Unescape(Tail(text))

\* json.loads(line) of a line {"k": "..."}: the string of the object.
JsonLoads(line) ==
    Unescape(SubSeq(Utf8Decode(line), Len(ObjOpen) + 1,
                    Len(Utf8Decode(line)) - Len(ObjClose)))

\* The loader converts an artifact.
ApplyNdjson ==
    /\ fn.op = "none" /\ fn.in # <<>>
    /\ fn' = [fn EXCEPT !.op = "ndjson", !.out = NdjsonBuffer(fn.in.records)]
    /\ UNCHANGED <<fetchVars, fs, loadVars, dag, runs, par>>

(***************************************************************************)
(* extract_punctuality's date filter                                       *)
(***************************************************************************)
\* The dates a caller passes: a year, a month and maybe a day, written
\* YYYY-MM or YYYY-MM-DD, a string being the sequence of its characters.
Years == {<<"2", "0", "2", "3">>, <<"2", "0", "2", "4">>}
Months == {<<"0", "1">>, <<"0", "3">>, <<"1", "2">>}
DaysOfMonth == {<<"0", "1">>, <<"1", "5">>, <<"2", "0">>}
DateArgs ==
    {y \o <<"-">> \o m : y \in Years, m \in Months}
    \cup {y \o <<"-">> \o m \o <<"-">> \o d : y \in Years, m \in Months, d \in DaysOfMonth}

\* A filter on the whole of the date given.
MonthOfDate_Whole(date) == date

\* start_date[:7].
MonthOfDate(date) == SubSeq(date, 1, Min(7, Len(date)))

\* f"{date_field} >= '{start_month}' AND {date_field} <= '{end_month}'",
\* part by part.
PunctualityWhere(date_field, start_date, end_date) ==
    <<date_field, " >= '", MonthOfDate(start_date), "' AND ",
      date_field, " <= '", MonthOfDate(end_date), "'">>

\* extract_punctuality builds the where clause it passes to get_all_records.
ApplyPunctualityWhere ==
    /\ fn.op = "none" /\ fn.in # <<>>
    /\ fn' = [fn EXCEPT !.op = "where",
                        !.out = PunctualityWhere("date", fn.in.start_date, fn.in.end_date)]
    /\ UNCHANGED <<fetchVars, fs, loadVars, dag, runs, par>>

(***************************************************************************)
(* The specifications                                                      *)
(***************************************************************************)
\* No function is being applied.
NoCall == [op |-> "none", in |-> <<>>, out |-> <<>>]

\* No run of a loading DAG is active, and no concurrent extraction runs.
ConcInit ==
    /\ runs = [d \in LoadingDags |-> NoActiveRun]
    /\ par = <<>>
    /\ fn = NoCall

LoaderInit ==
    /\ ld = IdleLoader
    /\ loads = 0
    /\ jobs = <<>>

\* Spec: one call of the client, or one extraction.
Init ==
    /\ FetchInit
    /\ fs = EmptyFs
    /\ LoaderInit
    /\ table = [t \in Tables |-> <<>>]
    /\ dag = NoRun
    /\ ConcInit

\* The steps of a run whose attempts are never retried: each request is
\* answered, or fails for good, at its first attempt.
NextFirstAttempt ==
    \/ \E limit \in LimitArgs, off \in {0, PAGE_SIZE}, flt \in FilterArgs :
           CallGetRecords(limit, off, flt)
    \/ \E mr \in MaxRecordsArgs, flt \in FilterArgs : CallGetAllRecords(mr, flt)
    \/ CallExtractValidations
    \/ StopAtMax
    \/ IssueRequest
    \/ \E n \in PageLens, tc \in TotalCounts : Respond(n, tc)
    \/ \E n \in PageLens : RespondDirect(n)
    \/ \E body \in IncompleteBodies : RespondIncomplete(body)
    \/ \E shape \in {"unparseable", "not_object"} : RespondUnusable(shape)
    \/ \E o \in FailedOutcomes : RequestFails(o)
    \/ CreateSessionRaises
    \/ ExtractNoRecords
    \/ \E d \in Days : ExtractWrite(d, d)

Next ==
    \/ NextFirstAttempt
    \/ \E o \in FailedOutcomes : SessionRetries(o)

Spec == Init /\ [][Next]_vars

\* FairSpec: every request is answered and the client goes on running. The
\* retried attempts, at most MAX_RETRIES for a request, are left out.
FairSpec == Init /\ [][NextFirstAttempt]_vars /\ WF_vars(NextFirstAttempt)

\* SpecLoad: loader invocations over bronze directories the extractors filled.
InitLoad ==
    /\ FetchInit
    /\ \E count \in [1..Len(Datasets) -> 0..MaxDays], mounted \in BOOLEAN :
           /\ Sum(count, Len(Datasets)) <= MaxFiles
           /\ fs = FsOf(Artifacts(count), mounted)
    /\ LoaderInit
    /\ \E prior \in {<<>>, PriorRows} : table = [t \in Tables |-> prior]
    /\ dag = NoRun
    /\ ConcInit

LoaderStep ==
    \/ ListArtifacts
    \/ EnterReferentials
    \/ RefLoop
    \/ SubmitJob
    \/ \E k \in 1..Len(jobs) : JobCompletes(k)
    \/ \E k \in 1..Len(jobs) : JobRejected(k)
    \/ ResultReturns
    \/ ResultRaises

NextLoad ==
    \/ \E entry \in Entries, truncate \in BOOLEAN : Main(entry, truncate)
    \/ LoaderStep

SpecLoad == InitLoad /\ [][NextLoad]_vars

\* SpecDag: runs of transport_daily_pipeline, from empty bronze directories.
NextDag ==
    \/ DagRunStarts
    \/ \E n \in {0, MaxRows} : TaskExtractValidations(n)
    \/ \E n \in {0, MaxRows} : TaskExtractPunctuality(n)
    \/ \E done \in 0..Len(RefTables), found \in SUBSET (1..Len(RefTables)) :
           TaskExtractReferentials(done, found)
    \/ \E t \in TaskIds : TaskRaises(t)
    \/ DagLoadStarts
    \/ LoaderStep
    \/ DagLoadEnds
    \/ \E ok \in BOOLEAN : TaskDbtBuild(ok)
    \/ \E outcome \in SlaOutcomes : TaskCheckSla(outcome)
    \/ \E ok \in BOOLEAN : TaskNotifySuccess(ok)

SpecDag == Init /\ [][NextDag]_vars

\* SpecRuns: the runs of the two DAGs that call load_all, each scheduled
\* under its own max_active_runs.
NextRuns ==
    \/ \E d \in LoadingDags : RunStarts(d)
    \/ \E d \in LoadingDags : LoadTaskStarts(d)
    \/ \E d \in LoadingDags : LoadSubmits(d)
    \/ \E d \in LoadingDags : LoadSkips(d)
    \/ \E d \in LoadingDags : LoadJobEnds(d)
    \/ \E d \in LoadingDags : LoadTaskEnds(d)
    \/ \E d \in LoadingDags : RunEnds(d)

SpecRuns == Init /\ [][NextRuns]_vars

\* SpecPar: the extractions of RunIds, started together, their steps
\* interleaved in every way.
InitPar ==
    /\ FetchInit
    /\ fs = EmptyFs
    /\ LoaderInit
    /\ table = [t \in Tables |-> <<>>]
    /\ dag = NoRun
    /\ runs = [d \in LoadingDags |-> NoActiveRun]
    /\ fn = NoCall
    /\ \E size \in [RunIds -> DatasetSizes], mr \in [RunIds -> ParMaxRecords] :
           par = [r \in RunIds |-> StartedRun(size[r], mr[r])]

NextPar ==
    \/ \E r \in RunIds : ParStopAtMax(r)
    \/ \E r \in RunIds : ParIssueRequest(r)
    \/ \E r \in RunIds : ParRespond(r)

SpecPar == InitPar /\ [][NextPar]_vars

\* Nothing else runs while a function is studied on its own.
Quiet ==
    /\ FetchInit
    /\ fs = EmptyFs
    /\ LoaderInit
    /\ table = [t \in Tables |-> <<>>]
    /\ dag = NoRun
    /\ runs = [d \in LoadingDags |-> NoActiveRun]
    /\ par = <<>>

\* SpecMap: one raw record mapped through one field map.
InitMap ==
    /\ Quiet
    /\ \E record \in RawRecords, shape \in RecordShapes, fields \in FieldMaps :
           fn = [op |-> "none",
                 in |-> [record |-> record, shape |-> shape, fields |-> fields],
                 out |-> <<>>]

NextMap ==
    \/ ApplyMapRecord
    \/ ApplyExtractFields

SpecMap == InitMap /\ [][NextMap]_vars

\* SpecExtract: one extractor on the list of records it fetched.
InitExtract ==
    /\ Quiet
    /\ \E dataset \in DOMAIN ProvenanceTags, records \in RecordLists,
          fields \in ExtractMaps :
           fn = [op |-> "none",
                 in |-> [dataset |-> dataset, records |-> records, fields |-> fields],
                 out |-> <<>>]

SpecExtract == InitExtract /\ [][ApplyExtract]_vars

\* SpecNdjson: one artifact converted to line-delimited JSON.
InitNdjson ==
    /\ Quiet
    /\ \E records \in JsonArrays :
           fn = [op |-> "none", in |-> [records |-> records], out |-> <<>>]

SpecNdjson == InitNdjson /\ [][ApplyNdjson]_vars

\* SpecWhere: extract_punctuality called with a start and an end date.
InitWhere ==
    /\ Quiet
    /\ \E start_date \in DateArgs, end_date \in DateArgs :
           fn = [op |-> "none",
                 in |-> [start_date |-> start_date, end_date |-> end_date],
                 out |-> <<>>]

SpecWhere == InitWhere /\ [][ApplyPunctualityWhere]_vars

(***************************************************************************)
(* Properties                                                              *)
(***************************************************************************)
\* get_all_records has returned (to its caller, or to extract_validations).
Returned == call \in {"get_all_records", "extract_validations"} /\ pc \in {"done", "exit"}

\* The place of job k among the jobs of its invocation and method.
Rank(k) ==
    Cardinality({j \in 1..k : jobs[j].inv = jobs[k].inv /\ jobs[j].method = jobs[k].method})

\* The rows of the artifact job k read.
JobRows(k) == [i \in 1..Len(jobs[k].lines) |-> Loads(jobs[k].lines[i])]

\* C1: when max_records is set (0 included), the list get_all_records
\* returns holds at most max_records records.
C1_AtMostMaxRecords ==
    (Returned /\ max_records # None) => Len(result) <= max_records[1]

\* C2: at the end of every successful run of the pipeline, every artifact of
\* the bronze directories has been loaded by exactly one load job. (Jobs the
\* warehouse rejected are not counted; of a reference dataset only the latest
\* snapshot is ever loaded, see C5, so for the older snapshots this states
\* the half "never more than once".)
C2_EachArtifactLoadedOnce ==
    dag.phase = "success" =>
        \A d \in Dirs : \A x \in fs[d].files :
            LET loaded == Cardinality({k \in 1..Len(jobs) :
                                         /\ jobs[k].file = x.name
                                         /\ jobs[k].lines = JsonArrayToNdjson(x.rows)
                                         /\ jobs[k].state = "done"})
            IN IF d = "referentials" THEN loaded <= 1 ELSE loaded = 1

\* C3: the i-th job load_validations or load_punctuality submits is for the
\* i-th of the N sorted artifacts, and is WRITE_TRUNCATE iff truncate is set
\* and i = 1, WRITE_APPEND otherwise; so a completed invocation submitted one
\* WRITE_TRUNCATE then N-1 WRITE_APPEND with truncate, N WRITE_APPEND without.
C3_Dispositions ==
    \A k \in 1..Len(jobs) :
        jobs[k].method \in DOMAIN Incremental =>
            /\ Rank(k) <= Len(jobs[k].list)
            /\ jobs[k].file = jobs[k].list[Rank(k)]
            /\ jobs[k].list = Sorted(Glob(fs, Incremental[jobs[k].method].dir,
                                          Incremental[jobs[k].method].pattern))
            /\ jobs[k].disposition =
                   IF jobs[k].truncate /\ Rank(k) = 1 THEN "WRITE_TRUNCATE" ELSE "WRITE_APPEND"

\* C3's case: three artifacts loaded with truncate, all three jobs done.
C3_Witness ==
    \E k \in 1..Len(jobs) :
        /\ jobs[k].method = "load_validations" /\ jobs[k].truncate
        /\ Rank(k) = 3 /\ Len(jobs[k].list) = 3 /\ jobs[k].state = "done"
        /\ jobs[k].disposition = "WRITE_APPEND"
        /\ jobs[k - 2].disposition = "WRITE_TRUNCATE"

\* C4: a job is submitted only once every job before it has completed, the
\* jobs of one invocation each successfully, and the artifacts of one
\* dataset go in sorted order.
C4_OneJobAtATime ==
    \A k \in 1..Len(jobs) : \A j \in 1..(k - 1) :
        /\ jobs[j].state # "running"
        /\ jobs[j].inv = jobs[k].inv => jobs[j].state = "done"
        /\ (jobs[j].inv = jobs[k].inv /\ jobs[j].method = jobs[k].method
            /\ jobs[k].method \in DOMAIN Incremental)
              => LexLess(jobs[j].file.stamp, jobs[k].file.stamp)

\* C4's case: the WRITE_TRUNCATE job is done and the WRITE_APPEND after it runs.
C4_Witness ==
    \E k \in 2..Len(jobs) :
        /\ jobs[k].inv = jobs[k - 1].inv /\ jobs[k].method = jobs[k - 1].method
        /\ jobs[k - 1].disposition = "WRITE_TRUNCATE" /\ jobs[k - 1].state = "done"
        /\ jobs[k].disposition = "WRITE_APPEND" /\ jobs[k].state = "running"

\* C5: every job of load_referentials is WRITE_TRUNCATE, for the greatest
\* name its pattern matches, and the only job of its invocation for its
\* table; a load_referentials that returned submitted one for every reference
\* dataset with an artifact.
C5_LatestSnapshotOnly ==
    /\ \A k \in 1..Len(jobs) :
          jobs[k].method = "load_referentials" =>
              \E r \in 1..Len(RefTables) :
                  LET matching == Glob(fs, "referentials", RefTables[r].pattern)
                  IN /\ jobs[k].table = RefTables[r].table
                     /\ jobs[k].file \in matching
                     /\ \A g \in matching \ {jobs[k].file} :
                            LexLess(g.stamp, jobs[k].file.stamp)
                     /\ jobs[k].disposition = "WRITE_TRUNCATE"
                     /\ \A j \in 1..Len(jobs) :
                            (jobs[j].inv = jobs[k].inv /\ jobs[j].table = jobs[k].table)
                                => j = k
    /\ (ld.lpc = "idle" /\ ld.outcome = "returned"
        /\ ld.entry \in {"load_all", "load_referentials"} /\ fs["referentials"].exists)
          => \A r \in 1..Len(RefTables) :
                 Glob(fs, "referentials", RefTables[r].pattern) # {}
                     => \E k \in 1..Len(jobs) :
                            jobs[k].inv = ld.inv /\ jobs[k].table = RefTables[r].table

\* C5's case: load_all without truncate has loaded the later of several snapshots.
C5_Witness ==
    \E k \in 1..Len(jobs) :
        /\ jobs[k].method = "load_referentials" /\ ~jobs[k].truncate
        /\ ld.entry = "load_all" /\ ld.outcome = "returned" /\ ld.inv = jobs[k].inv
        /\ Len(jobs[k].list) >= 2
        /\ jobs[k].state = "done"

\* C6, as claimed: whenever the first page reports total_count = 0,
\* get_all_records returns an empty list and nothing is written.
C6_ZeroTotalReturnsEmpty ==
    (Returned /\ total_count = Some(0)) => (result = <<>> /\ fs = EmptyFs)

\* C6, amended: whenever the first page reports total_count = 0 and holds no
\* record, get_all_records returns an empty list, and extract_validations
\* then writes no file and creates no directory.
C6_EmptyFirstPage ==
    (Returned /\ total_count = Some(0) /\ Len(requests) = 1 /\ last_page = Some(0))
        => (result = <<>> /\ fs = EmptyFs)

\* C6's case: extract_validations has returned after such a first page.
C6_Witness ==
    /\ call = "extract_validations" /\ pc = "exit"
    /\ total_count = Some(0) /\ Len(requests) = 1 /\ last_page = Some(0)
    /\ fs = EmptyFs

\* C7: the step that receives a page without records ends the loop with the
\* records accumulated so far as the result, and no request is issued after
\* get_all_records returned.
C7_EmptyPageStops ==
    [][/\ (pc = "waiting" /\ call # "get_records" /\ pc' # "raised"
           /\ last_page' = Some(0))
          => (pc' = "done" /\ result' = all_records /\ requests' = requests)
       /\ Returned => requests' = requests]_vars

\* C7's case: an empty page stopped a run short of the reported total.
C7_Witness ==
    /\ Returned /\ last_page = Some(0)
    /\ Len(result) > 0 /\ Len(result) < total_count[1]

\* C8: a get_all_records run whose requests are all answered ends, returning
\* or raising, and does so before the model's cap on requests binds.
C8_Terminates ==
    /\ [](pc = "loop" /\ ~MaxReached(max_records, all_records)
            => Len(requests) < MaxRequests)
    /\ (pc = "loop") ~> (pc \in {"done", "raised"})

\* C8's case: a run of several pages has ended past a total the pages overshot.
C8_Witness ==
    /\ Returned /\ Len(requests) >= 3
    /\ Len(result) > total_count[1] /\ total_count[1] > 0

\* C9: every request carries a limit of at most 100.
C9_LimitAtMost100 ==
    \A k \in 1..Len(requests) : requests[k].limit <= 100

\* C9's case: get_all_records with max_records above 100 has issued requests.
C9_Witness ==
    /\ call = "get_all_records" /\ max_records = Some(1000)
    /\ Len(requests) >= 2
    /\ filters = {"where", "select", "order_by"}

\* The job asks for the table to be replaced: a job of load_referentials, or
\* the first job of load_validations / load_punctuality with truncate.
AsksReplace(k) ==
    jobs[k].method = "load_referentials" \/ (jobs[k].truncate /\ Rank(k) = 1)

\* C10: a replacing job leaves the table with exactly its artifact's rows,
\* so the same artifact loaded twice in a row with replacement leaves the
\* table as the first load left it, whatever the table held before.
C10_ReplaceIdempotent ==
    \A k \in 1..Len(jobs) :
        (AsksReplace(k) /\ jobs[k].state = "done") =>
            /\ jobs[k].after = JobRows(k)
            /\ \A j \in 1..(k - 1) :
                   (/\ AsksReplace(j) /\ jobs[j].state = "done"
                    /\ jobs[j].table = jobs[k].table /\ jobs[j].lines = jobs[k].lines
                    /\ \A m \in (j + 1)..(k - 1) : jobs[m].table # jobs[k].table)
                       => jobs[k].after = jobs[j].after

\* C10's case: a table that held rows was replaced twice in a row by the same
\* snapshot.
C10_Witness ==
    \E k \in 2..Len(jobs) : \E j \in 1..(k - 1) :
        /\ jobs[k].method = "load_referentials" /\ jobs[j].method = "load_referentials"
        /\ jobs[j].state = "done" /\ jobs[k].state = "done"
        /\ jobs[j].table = jobs[k].table /\ jobs[j].lines = jobs[k].lines
        /\ jobs[j].inv # jobs[k].inv
        /\ table[jobs[k].table] = JobRows(k)

\* The rows of the artifacts jobs a..b read, in submission order.
RECURSIVE RowsFrom(_, _)
RowsFrom(a, b) == IF a > b THEN <<>> ELSE JobRows(a) \o RowsFrom(a + 1, b)

\* The completed jobs on job k's table submitted before job a.
DoneBefore(a, k) ==
    {j \in 1..(a - 1) : jobs[j].table = jobs[k].table /\ jobs[j].state = "done"}

\* The number of times row r occurs in rows.
Occurrences(r, rows) == Cardinality({i \in 1..Len(rows) : rows[i] = r})

\* C11: when the last job of a load_validations / load_punctuality invocation
\* without truncate is done, every job of the invocation was WRITE_APPEND and
\* the table holds what the last completed job before the invocation left,
\* followed by every row of every artifact of the directory: rows the table
\* held already are added again.
C11_AppendDuplicates ==
    \A k \in 1..Len(jobs) :
        (/\ jobs[k].method \in DOMAIN Incremental /\ ~jobs[k].truncate
         /\ jobs[k].state = "done" /\ Rank(k) = Len(jobs[k].list)) =>
            LET first == k - Len(jobs[k].list) + 1
                earlier == DoneBefore(first, k)
            IN /\ first >= 1
               /\ \A j \in first..k :
                      /\ jobs[j].inv = jobs[k].inv /\ jobs[j].state = "done"
                      /\ jobs[j].disposition = "WRITE_APPEND"
                      /\ jobs[j].file = jobs[k].list[j - first + 1]
               /\ earlier # {} =>
                      LET m == CHOOSE j \in earlier : \A i \in earlier : i <= j
                      IN jobs[k].after = jobs[m].after \o RowsFrom(first, k)

\* C11's case: load_validations ran twice without truncate over the same
\* artifacts, and the table holds every row of every artifact at least twice.
C11_Witness ==
    \E k \in 1..Len(jobs) : \E m \in 1..(k - 1) :
        /\ jobs[k].method = "load_validations" /\ jobs[m].method = "load_validations"
        /\ ~jobs[k].truncate /\ ~jobs[m].truncate
        /\ jobs[k].inv # jobs[m].inv /\ jobs[k].list = jobs[m].list
        /\ Len(jobs[k].list) >= 2
        /\ Rank(k) = Len(jobs[k].list) /\ Rank(m) = Len(jobs[m].list)
        /\ jobs[k].state = "done" /\ jobs[m].state = "done"
        /\ table["raw_validations"] = jobs[k].after
        /\ \A j \in (k - Len(jobs[k].list) + 1)..k : \A i \in 1..Len(JobRows(j)) :
               Occurrences(JobRows(j)[i], table["raw_validations"]) >= 2

\* C12: a request that failed for good (its outcome not retried, or the
\* retries used up) leaves the call raised: nothing was returned, the pages
\* fetched before are in no result, and no file or directory was written.
C12_FailureDiscardsPages ==
    /\ attempt.last \in FailedOutcomes => pc \in {"waiting", "raised"}
    /\ (attempt.last \in FailedOutcomes /\ pc = "waiting") =>
           (IsRetry(attempt.last, attempt.n - 1) /\ attempt.n <= MAX_RETRIES)
    /\ pc = "raised" => (result = <<>> /\ fs = EmptyFs)

\* C12's case: extract_validations raised at its third page, the retries of
\* the request used up, two pages of records fetched before.
C12_Witness ==
    /\ call = "extract_validations" /\ pc = "raised"
    /\ Len(requests) = 3 /\ Len(all_records) = 80
    /\ attempt.n = MAX_RETRIES /\ attempt.last.kind = "timeout"
    /\ result = <<>> /\ fs = EmptyFs

\* C13: once get_all_records received a response whose body is not the
\* expected page (not JSON, JSON but no object, or an object without the
\* results array or without total_count), the run is raised.
C13_MalformedAborts ==
    (/\ call \in {"get_all_records", "extract_validations"}
     /\ attempt.last.body \in {"unparseable", "not_object", "no_results", "no_total_count"})
        => pc = "raised"

\* C14: an attempt is followed by another only when it ended in a timeout,
\* a connection error or HTTP 429/500/502/503/504 (so any other HTTP error
\* status is raised at the attempt that met it), and a request is retried at
\* most max_retries times.
C14_RetryPolicy ==
    /\ attempt.n <= MAX_RETRIES
    /\ (pc = "waiting" /\ attempt.n > 0) =>
           \/ attempt.last.kind \in {"timeout", "connection_error"}
           \/ /\ attempt.last.kind = "status"
              /\ attempt.last.status \in {429, 500, 502, 503, 504}

\* C15: after a load job failed no other job of its invocation is submitted
\* (neither the same file again nor a later artifact), and once the loader
\* has seen the failure the invocation has ended raised.
C15_FailedJobAborts ==
    \A k \in 1..Len(jobs) :
        jobs[k].state = "failed" =>
            /\ \A j \in (k + 1)..Len(jobs) : jobs[j].inv # jobs[k].inv
            /\ ld.inv = jobs[k].inv =>
                   \/ ld.lpc = "wait"
                   \/ ld.lpc = "idle" /\ ld.outcome = "raised"

\* C15's case: load_all ended raised on the rejected WRITE_APPEND of the
\* first of several artifacts, and nothing else was submitted.
C15_Witness ==
    \E k \in 1..Len(jobs) :
        /\ jobs[k].state = "failed" /\ jobs[k].disposition = "WRITE_APPEND"
        /\ jobs[k].method = "load_validations" /\ Rank(k) = 1
        /\ Len(jobs[k].list) >= 2
        /\ ld.entry = "load_all" /\ ld.inv = jobs[k].inv
        /\ ld.lpc = "idle" /\ ld.outcome = "raised"
        /\ k = Len(jobs)
        /\ Glob(fs, "punctuality", <<"punctuality">>) # {}

\* The tables of the datasets the loader's entry covers.
TablesOf(entry) ==
    IF entry = "load_all" THEN Tables
    ELSE IF entry = "load_referentials" THEN {RefTables[r].table : r \in 1..Len(RefTables)}
    ELSE {Incremental[entry].table}

\* The artifacts a dataset's table is loaded from.
ArtifactsOf(t) ==
    IF t = "raw_validations" THEN Glob(fs, "validations", <<"validations">>)
    ELSE IF t = "raw_punctuality" THEN Glob(fs, "punctuality", <<"punctuality">>)
    ELSE UNION {Glob(fs, "referentials", RefTables[r].pattern) :
                   r \in {x \in 1..Len(RefTables) : RefTables[x].table = t}}

\* C16: an invocation ends raised only on a failed job, never on a missing
\* or empty directory; one that returned submitted no job for a dataset
\* without artifact and loaded every other dataset of its entry.
C16_MissingIsNotFatal ==
    /\ (ld.lpc = "idle" /\ ld.outcome = "raised") =>
           \E k \in 1..Len(jobs) : jobs[k].inv = ld.inv /\ jobs[k].state = "failed"
    /\ \A k \in 1..Len(jobs) : jobs[k].file \in ArtifactsOf(jobs[k].table)
    /\ (ld.lpc = "idle" /\ ld.outcome = "returned") =>
           \A t \in TablesOf(ld.entry) :
               ArtifactsOf(t) # {} <=>
                   \E k \in 1..Len(jobs) :
                       jobs[k].inv = ld.inv /\ jobs[k].table = t /\ jobs[k].state = "done"

\* C16's case: load_all returned having loaded ref_lines although the
\* validations directory does not exist and no ref_stops file matches.
C16_Witness ==
    /\ ld.entry = "load_all" /\ ld.lpc = "idle" /\ ld.outcome = "returned"
    /\ ~fs["validations"].exists
    /\ fs["referentials"].exists /\ ArtifactsOf("raw_ref_stops") = {}
    /\ \E k \in 1..Len(jobs) :
           /\ jobs[k].inv = ld.inv /\ jobs[k].table = "raw_ref_lines"
           /\ jobs[k].state = "done"
    /\ \A k \in 1..Len(jobs) : jobs[k].table \notin {"raw_validations", "raw_ref_stops"}

\* C17: two load invocations never write to the same destination table at
\* the same time: the load tasks of transport_daily_pipeline and
\* transport_backfill never have a load job running on the same table.
C17_SingleWriter ==
    \A d1, d2 \in LoadingDags : d1 # d2 => WritingTo(d1) \cap WritingTo(d2) = {}

\* C18: once an extractor has written an artifact file, no later extraction
\* changes it: every file of a bronze directory is still there, with the
\* same content, after every step.
C18_ArtifactsImmutable ==
    [][\A d \in Dirs : \A f \in fs[d].files : f \in fs'[d].files]_vars

\* A run of get_all_records (called directly or by an extractor).
Paginating == call \in {"get_all_records", "extract_validations"}

\* The steps of a run: it issues a request, receives a response's page,
\* returns its list.
Issues == requests' # requests
Receives == pc = "waiting" /\ pc' \in {"loop", "done"}
Returns == pc \in {"loop", "waiting"} /\ pc' = "done"

\* The pages received up to the end of a step, concatenated in the order of
\* their requests.
PagesAfter ==
    IF pc = "waiting" THEN all_records \o Page(Len(requests), last_page'[1])
    ELSE all_records

\* A request is issued while none is outstanding: it is one more request,
\* the k-th carries offset 100*(k-1), and the one before it was answered.
SequentialRequests ==
    Issues =>
        /\ pc # "waiting" /\ pc' = "waiting"
        /\ Len(requests') = Len(requests) + 1
        /\ SubSeq(requests', 1, Len(requests)) = requests
        /\ requests'[Len(requests')].offset = PAGE_SIZE * Len(requests)
        /\ Len(requests) > 0 =>
               attempt.last \in {Ok("page")} \cup {Ok(BodyShape(b)) : b \in IncompleteBodies}

\* C19: within one run of get_all_records at most one request is outstanding:
\* the k-th request carries offset 100*(k-1) and is issued after response k-1
\* was received; each page is appended to those before it, and the list
\* returned is the concatenation of the pages in request order, cut to its
\* first max_records records when the run stopped at the max_records check.
C19_Sequential ==
    [][Paginating' =>
          /\ SequentialRequests
          /\ Receives => all_records' = PagesAfter
          /\ Returns => result' = IF pc = "loop"
                                    THEN Prefix(PagesAfter, max_records[1])
                                    ELSE PagesAfter]_vars

\* A run of three requests stopped at the max_records check: the list is the
\* first max_records records of the three pages.
C19_Witness ==
    /\ call = "get_all_records" /\ pc = "done"
    /\ max_records = Some(PAGE_SIZE)
    /\ Len(requests) = 3 /\ requests[3].offset = 2 * PAGE_SIZE
    /\ result = Prefix(Page(1, 40) \o Page(2, 40) \o Page(3, 40), PAGE_SIZE)

\* C19 as stated: the list returned is always the whole concatenation of the
\* pages.
C19_ReturnsAllPages ==
    [][Paginating' =>
          /\ SequentialRequests
          /\ Receives => all_records' = PagesAfter
          /\ Returns => result' = PagesAfter]_vars

\* C20: the offset, the captured total and the accumulated records of an
\* extraction are its own: whatever the interleaving with the extractions
\* running at the same time, a run returns the list it returns when it runs
\* alone.
C20_RunsIndependent ==
    \A r \in RunIds :
        par[r].pc = "done" =>
            par[r].result = AloneFrom(r, par[r].size, par[r].max_records, <<>>, 0, None)

\* Two runs of two requests each are over, one cut to its max_records.
C20_Witness ==
    /\ \A r \in RunIds : par[r].pc = "done" /\ par[r].size = MaxTotal
    /\ par[1].offset = PAGE_SIZE /\ Len(par[1].result) = MaxTotal
    /\ par[2].max_records = Some(PAGE_SIZE) /\ Len(par[2].result) = PAGE_SIZE

\* The request of the current get_records call ended in an error: the call
\* raised (a body that parses but is no object is returned by get_records;
\* it is its caller that raises).
RequestErrored ==
    /\ pc = "raised" /\ call # "init"
    /\ attempt.last # Ok("not_object")

\* get_records returned the response of its request.
RequestReturned ==
    /\ attempt.last.kind = "status" /\ attempt.last.status = 200
    /\ ~RequestErrored

\* C21: get_records sleeps rate_limit_delay exactly once for a request that
\* completed successfully, and never for a request that ended in an error
\* (nor while the request is outstanding).
C21_SleepsOnlyOnSuccess ==
    /\ RequestReturned => attempt.slept = 1
    /\ RequestErrored => attempt.slept = 0
    /\ pc = "waiting" => attempt.slept = 0

\* The raw record's value at a source key, None when the key is absent.
ValueAt(raw, name) ==
    IF Len(name) = 1 /\ name[1] \in DOMAIN raw THEN raw[name[1]] ELSE Null

\* The fields of the raw record a mapping reads.
RawOf(op, input) ==
    IF op = "map_record" \/ input.shape = "nested" THEN input.record ELSE <<>>

\* The business keys of a mapped record: those the extractor did not inject.
BusinessKeys(op, mapped) ==
    IF op = "map_record" THEN DOMAIN mapped \ InjectedFields ELSE DOMAIN mapped

\* C22: for every raw record and every field map, no error is raised, the
\* mapped record has exactly the map's target names as business keys, and
\* each target's value is the raw record's value at the mapped source key,
\* None when that key is absent.
C22_MappedRecord ==
    fn.op \in {"map_record", "extract_fields"} =>
        /\ ~fn.out.raised
        /\ BusinessKeys(fn.op, fn.out.value) = DOMAIN fn.in.fields
        /\ \A t \in DOMAIN fn.in.fields :
               fn.out.value[t] = ValueAt(RawOf(fn.op, fn.in), fn.in.fields[t])

\* A timestamp with an explicit UTC offset or Z.
UtcQualified(ts) == Len(ts) = 2 /\ ts[2] \in {"+00:00", "Z"}

\* C23: a written artifact holds one entry per fetched record, in fetch
\* order, and every entry carries source, the provenance tag of its dataset,
\* and ingestion_ts, a UTC-qualified timestamp.
C23_ArtifactEntries ==
    (fn.op = "extract" /\ fn.out.written) =>
        /\ Len(fn.out.entries) = Len(fn.in.records)
        /\ \A i \in 1..Len(fn.in.records) :
               /\ \A t \in DOMAIN fn.in.fields \ InjectedFields :
                      fn.out.entries[i][t] = ValueAt(fn.in.records[i], fn.in.fields[t])
               /\ fn.out.entries[i]["source"] = ProvenanceTags[fn.in.dataset]
               /\ UtcQualified(fn.out.entries[i]["ingestion_ts"])

\* An artifact of two different records was written.
C23_Witness ==
    /\ fn.op = "extract" /\ fn.out.written
    /\ Len(fn.in.records) = 2 /\ fn.in.records[1] # fn.in.records[2]
    /\ Len(fn.out.entries) = 2
    /\ fn.out.entries[1]["source"] = "transilien_punctuality"

\* C24: for an artifact of k records, whose values may hold line feeds and
\* letters outside ASCII, the buffer has one line per record, and parsing
\* the lines one by one gives back the k records, in order.
C24_NdjsonRoundTrip ==
    fn.op = "ndjson" =>
        LET lines == LinesOf(fn.out)
        IN /\ Len(lines) = Len(fn.in.records)
           /\ \A i \in 1..Len(lines) : JsonLoads(lines[i]) = fn.in.records[i]

\* An artifact of two records was converted, one holding a line feed and a
\* backslash, the other a letter outside ASCII and a quote.
C24_Witness ==
    /\ fn.op = "ndjson"
    /\ fn.in.records = << <<LF, BACKSLASH>>, <<"e_acute", QUOTE>> >>
    /\ Len(LinesOf(fn.out)) = 2

\* The YYYY-MM a date starts with: its year and its month.
YearMonth(date) ==
    CHOOSE ym \in {y \o <<"-">> \o m : y \in Years, m \in Months} :
        \/ date = ym
        \/ \E d \in DaysOfMonth : date = ym \o <<"-">> \o d

\* C25: for start and end dates written YYYY-MM or YYYY-MM-DD, the filter of
\* the punctuality extraction names the YYYY-MM of the two dates and nothing
\* else of them: no day appears in it.
C25_MonthsOnly ==
    fn.op = "where" =>
        /\ Len(fn.out) = 8
        /\ fn.out[3] = YearMonth(fn.in.start_date)
        /\ fn.out[7] = YearMonth(fn.in.end_date)
        /\ <<fn.out[1], fn.out[2], fn.out[4], fn.out[5], fn.out[6], fn.out[8]>>
               = <<"date", " >= '", "' AND ", "date", " <= '", "'">>

\* The filter of the dates 2024-01-15 and 2024-03-20.
C25_Witness ==
    /\ fn.op = "where"
    /\ fn.in.start_date = <<"2", "0", "2", "4", "-", "0", "1", "-", "1", "5">>
    /\ fn.in.end_date = <<"2", "0", "2", "4", "-", "0", "3", "-", "2", "0">>
    /\ fn.out[3] = <<"2", "0", "2", "4", "-", "0", "1">>
    /\ fn.out[7] = <<"2", "0", "2", "4", "-", "0", "3">>

\* ceil(n / PAGE_SIZE).
PagesOf(n) == (n + PAGE_SIZE - 1) \div PAGE_SIZE

\* C26: against a source of N records in a fixed order that honours limit
\* and offset and reports total_count = N, a run without max_records returns
\* the N records, each once and in the source's order, with ceil(N/100)
\* requests, one request when N = 0.
C26_FetchesAll ==
    \A r \in RunIds :
        (par[r].pc = "done" /\ par[r].max_records = None) =>
            /\ par[r].result = [i \in 1..par[r].size |-> <<r, i>>]
            /\ par[r].nreq = IF par[r].size = 0 THEN 1 ELSE PagesOf(par[r].size)

\* Runs without max_records are over on sources of 130 records and of 200.
C26_Witness ==
    /\ \A r \in RunIds : par[r].pc = "done" /\ par[r].max_records = None
    /\ par[1].size = MaxTotal /\ par[1].nreq = 2 /\ Len(par[1].result) = MaxTotal
    /\ par[2].size = 2 * PAGE_SIZE /\ par[2].nreq = 2

\* The number of records the first page delivered that the run holds.
FirstPageLen == Cardinality({i \in 1..Len(all_records) : all_records[i][1] = 1})

\* C27: with 0 < max_records < 100 the pages are requested with limit = 100;
\* once the first page has delivered at least max_records records no further
\* request is issued, and the run returns exactly the first max_records
\* records.
C27_TruncatesAfterFirstPage ==
    (/\ call = "get_all_records" /\ pc \in {"loop", "done"}
     /\ Truthy(max_records) /\ max_records[1] < PAGE_SIZE
     /\ FirstPageLen >= max_records[1]) =>
        /\ Len(requests) = 1
        /\ requests[1].limit = PAGE_SIZE
        /\ pc = "done" => result = Page(1, max_records[1])

\* C28: total_count is captured from the first response and from it only:
\* once set it never changes, whatever the later pages report, and the loop
\* goes on only while the accumulated count is below it.
C28_TotalFromFirstPage ==
    [][Paginating' =>
          /\ Receives => total_count' # None
          /\ total_count # None => total_count' = total_count
          /\ (pc' = "loop" /\ total_count' # None) =>
                 Len(all_records') < total_count'[1]]_vars

\* A run of three pages under a first-page total of 130: it went on at 80
\* records and stopped at 180.
C28_Witness ==
    /\ call = "get_all_records" /\ pc = "done"
    /\ Len(requests) = 3
    /\ total_count = Some(MaxTotal)
    /\ Len(result) = 180

\* The rows of the files of a directory, in the order of the list.
RECURSIVE FileRows(_, _)
FileRows(dir, files) ==
    IF files = <<>> THEN <<>>
    ELSE ReadFile(fs, dir, Head(files)) \o FileRows(dir, Tail(files))

\* The rows of all the artifacts load_validations / load_punctuality matches.
MatchingRows(m) ==
    FileRows(Incremental[m].dir, Sorted(Glob(fs, Incremental[m].dir, Incremental[m].pattern)))

\* The invocation main made last has returned: entry m with --truncate.
TruncateCompleted(m) ==
    /\ ld.lpc = "idle" /\ ld.outcome = "returned"
    /\ ld.entry = m /\ ld.truncate

\* The last job of a load_validations / load_punctuality run with truncate
\* is done.
LastOfTruncate(k) ==
    /\ jobs[k].method \in DOMAIN Incremental /\ jobs[k].truncate
    /\ jobs[k].state = "done" /\ Rank(k) = Len(jobs[k].list)

DownTaskRuns(t) ==
    dag'.run = dag.run /\ dag.down[t] = "pending" /\ dag'.down[t] # "pending"

====
